---- MODULE Spec2Model ----
(***************************************************************************)
(* A model of src/lib/pyodide/scripts/validate.py: validate_language, the  *)
(* Pyodide-side shim that puts a package directory on sys.path, asks the   *)
(* yaduha loader for the language object and reports either its public     *)
(* fields or the caught exception as a JSON string.                        *)
(*                                                                         *)
(* The interpreter runs one thread; an invocation is modelled statement by *)
(* statement (pc), the host may invoke the function again after it has     *)
(* returned or raised.  The loader (yaduha.loader.LanguageLoader) is not   *)
(* part of the modelled source: its call is a nondeterministic choice      *)
(* among the objects it may return and the exceptions it may raise, and it *)
(* is taken to leave sys.path as it found it.                              *)
(***************************************************************************)
EXTENDS Naturals, Sequences, FiniteSets, TLC

\* Bounds of the model.
MaxCalls == 3   \* invocations of validate_language by the host
MaxTypes == 2   \* entries of a language object's sentence_types

---------------------------------------------------------------------------
(* Python values.  A value is a record tagged by k. *)

PyStr(s) == [k |-> "str", s |-> s]
PyBool(b) == [k |-> "bool", b |-> b]
PyList(xs) == [k |-> "list", items |-> xs]
\* An instance of a class json has no encoder for.
PyObject == [k |-> "object"]
PyNone == [k |-> "none"]
\* The value of an attribute the object does not have.
Absent == [k |-> "absent"]
\* A local name that is not bound (yet).
Unbound == [k |-> "unbound"]

\* A sentence type: a class (which has __name__) or an instance (which has not).
StClass(n) == [k |-> "class", name |-> PyStr(n)]
StInstance == [k |-> "instance", name |-> Absent]

---------------------------------------------------------------------------
(* Exceptions: a class is identified by its module and its name; base says  *)
(* whether it derives from Exception or only from BaseException.            *)

ExcClass(m, n, b) == [module |-> m, name |-> n, base |-> b]
Exc(c, a) == [cls |-> c, args |-> a]

AttributeErrorCls == ExcClass("builtins", "AttributeError", "Exception")
TypeErrorCls == ExcClass("builtins", "TypeError", "Exception")
ModuleNotFoundErrorCls == ExcClass("builtins", "ModuleNotFoundError", "Exception")
FileNotFoundErrorCls == ExcClass("builtins", "FileNotFoundError", "Exception")
SystemExitCls == ExcClass("builtins", "SystemExit", "BaseException")
\* Two language packages each defining an exception class of their own.
ParseErrorA == ExcClass("pkg_a.errors", "ParseError", "Exception")
ParseErrorB == ExcClass("pkg_b.errors", "ParseError", "Exception")

\* Variant: repr(e) in place of str(e).
StrOfExceptionRepr(e) ==
  e.cls.name \o "(" \o (IF e.args = <<>> THEN "" ELSE "'" \o e.args[1] \o "'") \o ")"

\* str(e) of BaseException: "" without args, the argument with one.
StrOfException(e) == IF e.args = <<>> THEN "" ELSE e.args[1]

\* Variant: one label for every failure.
TypeNameGeneric(e) == e.cls.base

\* type(e).__name__: the bare name, without the module.
TypeName(e) == e.cls.name

\* `except Exception` matches instances of Exception's subclasses only.
Catches(e) == e.cls.base = "Exception"

---------------------------------------------------------------------------
(* What the host and the loader may do. *)

RepoPaths == {"", "/repo/num"}
InitialSysPath == <<"/lib/python312.zip", "/lib/python3.12/site-packages">>

LoaderMessages == {<<>>, <<"">>, <<"bad language package">>}
LoaderRaises ==
  {Exc(c, a) : c \in {FileNotFoundErrorCls, ParseErrorA, ParseErrorB, SystemExitCls},
               a \in LoaderMessages}

SentenceTypeEntries == {StClass("Declarative"), StClass("Question"), StInstance}
SeqsUpTo(S, n) == UNION {[1..m -> S] : m \in 0..n}
LoaderObjects ==
  [code : {PyStr("num"), PyObject, Absent},
   name : {PyStr("Numeric Language"), PyObject, Absent},
   sentence_types : {Absent, PyNone}
                    \cup {PyList(s) : s \in SeqsUpTo(SentenceTypeEntries, MaxTypes)}]

---------------------------------------------------------------------------
(* json.dumps *)

RECURSIVE Serializable(_)
Serializable(v) ==
  CASE v.k \in {"str", "bool", "none"} -> TRUE
    [] v.k = "list" -> \A i \in DOMAIN v.items : Serializable(v.items[i])
    [] OTHER -> FALSE

RECURSIVE JsonOf(_)
JsonOf(v) ==
  CASE v.k = "str" -> [t |-> "string", s |-> v.s]
    [] v.k = "bool" -> [t |-> IF v.b THEN "true" ELSE "false"]
    [] v.k = "none" -> [t |-> "null"]
    [] v.k = "list" -> [t |-> "array", items |-> [i \in DOMAIN v.items |-> JsonOf(v.items[i])]]

\* A dict is a function from its keys; the JSON object has the same keys.
DictSerializable(d) == \A key \in DOMAIN d : Serializable(d[key])
JsonDumps(d) == [key \in DOMAIN d |-> JsonOf(d[key])]

---------------------------------------------------------------------------
VARIABLES
  sys_path,    \* sys.path
  pc,          \* the statement the invocation is at
  repo_path,   \* the argument of the current (or last) invocation
  language,    \* local: what the loader returned
  code_v,      \* value of "language": language.code, once evaluated
  name_v,      \* value of "name": language.name, once evaluated
  types_it,    \* the list the comprehension iterates over
  types_v,     \* the names the comprehension has collected so far
  exc,         \* the exception raised in the invocation, if any
  result,      \* local: result
  returned,    \* what the caller got back
  imported,    \* whether `from yaduha.loader import LanguageLoader` succeeded
  loadCalls,   \* arguments of the loader calls of this invocation
  passed,      \* history: the repo_path of every invocation so far
  failures     \* history: class and reported error_type of every Failure

vars == <<sys_path, pc, repo_path, language, code_v, name_v, types_it, types_v,
          exc, result, returned, imported, loadCalls, passed, failures>>

Init ==
  /\ sys_path = InitialSysPath
  /\ pc = "idle"
  /\ repo_path = ""
  /\ language = Unbound
  /\ code_v = Unbound
  /\ name_v = Unbound
  /\ types_it = Unbound
  /\ types_v = <<>>
  /\ exc = Unbound
  /\ result = Unbound
  /\ returned = Unbound
  /\ imported = FALSE
  /\ loadCalls = <<>>
  /\ passed = <<>>
  /\ failures = {}

\* Variant: sys.path.append(repo_path).
InsertFrontAppend(list, x) == Append(list, x)

\* Variant: insert only when the path is not in the list yet.
InsertFrontDedup(list, x) ==
  IF \E i \in DOMAIN list : list[i] = x THEN list ELSE <<x>> \o list

\* list.insert(0, x)
InsertFront(list, x) == <<x>> \o list

\* line 12: the host calls validate_language(p); sys.path.insert(0, repo_path)
Call(p) ==
  /\ pc \in {"idle", "returned", "raised"}
  /\ Len(passed) < MaxCalls
  /\ repo_path' = p
  /\ sys_path' = InsertFront(sys_path, p)
  /\ passed' = Append(passed, p)
  /\ language' = Unbound /\ code_v' = Unbound /\ name_v' = Unbound
  /\ types_it' = Unbound /\ types_v' = <<>> /\ exc' = Unbound
  /\ result' = Unbound /\ returned' = Unbound
  /\ imported' = FALSE /\ loadCalls' = <<>>
  /\ pc' = "import"
  /\ UNCHANGED failures

Raise(e) == exc' = e /\ pc' = "except"

\* line 15: from yaduha.loader import LanguageLoader
ImportLoader(ok) ==
  /\ pc = "import"
  /\ IF ok
       THEN imported' = TRUE /\ pc' = "load" /\ UNCHANGED exc
       ELSE /\ Raise(Exc(ModuleNotFoundErrorCls, <<"No module named 'yaduha'">>))
            /\ UNCHANGED imported
  /\ UNCHANGED <<sys_path, repo_path, language, code_v, name_v, types_it, types_v,
                 result, returned, loadCalls, passed, failures>>

\* line 17: language = LanguageLoader.load_language_from_source(repo_path)
LoadReturns(obj) ==
  /\ pc = "load"
  /\ loadCalls' = Append(loadCalls, repo_path)
  /\ language' = obj
  /\ pc' = "code"
  /\ UNCHANGED <<sys_path, repo_path, code_v, name_v, types_it, types_v, exc,
                 result, returned, imported, passed, failures>>

LoadRaises(e) ==
  /\ pc = "load"
  /\ loadCalls' = Append(loadCalls, repo_path)
  /\ Raise(e)
  /\ UNCHANGED <<sys_path, repo_path, language, code_v, name_v, types_it, types_v,
                 result, returned, imported, passed, failures>>

NoAttribute(attr) ==
  Exc(AttributeErrorCls, <<"'Language' object has no attribute '" \o attr \o "'">>)

\* line 20: "language": language.code
ReadCode ==
  /\ pc = "code"
  /\ IF language.code = Absent
       THEN Raise(NoAttribute("code")) /\ UNCHANGED code_v
       ELSE code_v' = language.code /\ pc' = "name" /\ UNCHANGED exc
  /\ UNCHANGED <<sys_path, repo_path, language, name_v, types_it, types_v,
                 result, returned, imported, loadCalls, passed, failures>>

\* line 21: "name": language.name
ReadName ==
  /\ pc = "name"
  /\ IF language.name = Absent
       THEN Raise(NoAttribute("name")) /\ UNCHANGED name_v
       ELSE name_v' = language.name /\ pc' = "types" /\ UNCHANGED exc
  /\ UNCHANGED <<sys_path, repo_path, language, code_v, types_it, types_v,
                 result, returned, imported, loadCalls, passed, failures>>

\* line 22: `for st in language.sentence_types`: the attribute, then iter()
ReadSentenceTypes ==
  /\ pc = "types"
  /\ CASE language.sentence_types = Absent ->
            Raise(NoAttribute("sentence_types")) /\ UNCHANGED types_it
       [] language.sentence_types.k # "list" ->
            /\ Raise(Exc(TypeErrorCls, <<"'NoneType' object is not iterable">>))
            /\ UNCHANGED types_it
       [] OTHER ->
            types_it' = language.sentence_types.items /\ pc' = "iter" /\ UNCHANGED exc
  /\ UNCHANGED <<sys_path, repo_path, language, code_v, name_v, types_v,
                 result, returned, imported, loadCalls, passed, failures>>

\* Variant: the names collected in reverse.
SuccessResultReversed(code, name, names) ==
  [valid |-> PyBool(TRUE),
   language |-> code,
   name |-> name,
   sentence_types |-> PyList([i \in DOMAIN names |-> names[Len(names) + 1 - i]])]

\* lines 18-23: the dict display, once all its values are evaluated
SuccessResult(code, name, names) ==
  [valid |-> PyBool(TRUE),
   language |-> code,
   name |-> name,
   sentence_types |-> PyList(names)]

\* Variant: a missing __name__ goes unnoticed.
HasTypeNameAlways(st) == TRUE

\* line 22: one round of the comprehension: st.__name__ of the next entry
HasTypeName(st) == st.name # Absent

NextTypeName ==
  /\ pc = "iter"
  /\ Len(types_v) < Len(types_it)
  /\ LET st == types_it[Len(types_v) + 1]
     IN IF HasTypeName(st)
          THEN types_v' = Append(types_v, st.name) /\ UNCHANGED <<pc, exc>>
          ELSE /\ Raise(Exc(AttributeErrorCls,
                            <<"'SentenceType' object has no attribute '__name__'">>))
               /\ UNCHANGED types_v
  /\ UNCHANGED <<sys_path, repo_path, language, code_v, name_v, types_it,
                 result, returned, imported, loadCalls, passed, failures>>

\* lines 18-23: the iterator is exhausted; result = {...}
BuildSuccess ==
  /\ pc = "iter"
  /\ Len(types_v) = Len(types_it)
  /\ result' = SuccessResult(code_v, name_v, types_v)
  /\ pc' = "dumps"
  /\ UNCHANGED <<sys_path, repo_path, language, code_v, name_v, types_it, types_v,
                 exc, returned, imported, loadCalls, passed, failures>>

\* Variant: the handler updates a dict that already holds what was read.
FailureResultKeepsRead(e) ==
  IF code_v = Unbound
    THEN [valid |-> PyBool(FALSE),
          error |-> PyStr(StrOfException(e)),
          error_type |-> PyStr(TypeName(e))]
    ELSE [valid |-> PyBool(FALSE),
          language |-> code_v,
          error |-> PyStr(StrOfException(e)),
          error_type |-> PyStr(TypeName(e))]

\* lines 25-29: the dict display of the handler
FailureResult(e) ==
  [valid |-> PyBool(FALSE),
   error |-> PyStr(StrOfException(e)),
   error_type |-> PyStr(TypeName(e))]

\* Variant: a failed load is attempted once more before it is reported.
ExceptClauseRetry ==
  /\ pc = "except"
  /\ IF Catches(exc) /\ language = Unbound /\ Len(loadCalls) = 1
       THEN pc' = "load" /\ UNCHANGED result
       ELSE IF Catches(exc)
         THEN result' = FailureResult(exc) /\ pc' = "dumps"
         ELSE pc' = "raised" /\ UNCHANGED result
  /\ UNCHANGED <<sys_path, repo_path, language, code_v, name_v, types_it, types_v,
                 exc, returned, imported, loadCalls, passed, failures>>

\* lines 24-29: except Exception as e: result = {...}; anything else propagates
ExceptClause ==
  /\ pc = "except"
  /\ IF Catches(exc)
       THEN result' = FailureResult(exc) /\ pc' = "dumps"
       ELSE pc' = "raised" /\ UNCHANGED result
  /\ UNCHANGED <<sys_path, repo_path, language, code_v, name_v, types_it, types_v,
                 exc, returned, imported, loadCalls, passed, failures>>

\* line 31: return json.dumps(result), outside the try statement
Dumps ==
  /\ pc = "dumps"
  /\ IF DictSerializable(result)
       THEN /\ returned' = JsonDumps(result)
            /\ pc' = "returned"
            /\ failures' = IF result.valid.b THEN failures
                           ELSE failures \cup {[cls |-> exc.cls,
                                                error_type |-> result.error_type.s]}
            /\ UNCHANGED exc
       ELSE /\ exc' = Exc(TypeErrorCls, <<"Object is not JSON serializable">>)
            /\ pc' = "raised"
            /\ UNCHANGED <<returned, failures>>
  /\ UNCHANGED <<sys_path, repo_path, language, code_v, name_v, types_it, types_v,
                 result, imported, loadCalls, passed>>

Next ==
  \/ \E p \in RepoPaths : Call(p)
  \/ \E ok \in BOOLEAN : ImportLoader(ok)
  \/ \E obj \in LoaderObjects : LoadReturns(obj)
  \/ \E e \in LoaderRaises : LoadRaises(e)
  \/ ReadCode
  \/ ReadName
  \/ ReadSentenceTypes
  \/ NextTypeName
  \/ BuildSuccess
  \/ ExceptClause
  \/ Dumps

Spec == Init /\ [][Next]_vars

---------------------------------------------------------------------------
(* Vocabulary of the properties. *)

Done == pc \in {"returned", "raised"}
LoaderReturned == language # Unbound
LoaderRaised == Len(loadCalls) > 0 /\ language = Unbound

JsonTrue == [t |-> "true"]
JsonFalse == [t |-> "false"]
JsonString(s) == [t |-> "string", s |-> s]

SuccessKeys == {"valid", "language", "name", "sentence_types"}
FailureKeys == {"valid", "error", "error_type"}

\* A language object as the data model describes it: a code and a name that
\* are strings and sentence types that each have a type name.
WellFormed(obj) ==
  /\ obj.code.k = "str"
  /\ obj.name.k = "str"
  /\ obj.sentence_types.k = "list"
  /\ \A i \in DOMAIN obj.sentence_types.items : obj.sentence_types.items[i].k = "class"

\* The object lacks code, name or sentence_types, or an entry lacks a type name.
LacksField(obj) ==
  \/ obj.code = Absent
  \/ obj.name = Absent
  \/ obj.sentence_types = Absent
  \/ /\ obj.sentence_types.k = "list"
     /\ \E i \in DOMAIN obj.sentence_types.items : obj.sentence_types.items[i].k = "instance"

Count(seq, x) == Cardinality({i \in DOMAIN seq : seq[i] = x})

---------------------------------------------------------------------------
\* C1: every invocation ends by returning a result (it never raises to the
\* caller), and whenever something was raised on the way the result returned
\* is the Failure variant.
C1_NeverRaises ==
  /\ pc # "raised"
  /\ (pc = "returned" /\ exc # Unbound) => returned.valid = JsonFalse

\* C2: when the loader returns a well-formed language object, the result has
\* valid == true, language its code, name its name and sentence_types the
\* type names of its sentence types, all of them, in the loader's order.
C2_SuccessFields ==
  (Done /\ LoaderReturned /\ WellFormed(language)) =>
     /\ pc = "returned"
     /\ returned =
          [valid |-> JsonTrue,
           language |-> JsonString(language.code.s),
           name |-> JsonString(language.name.s),
           sentence_types |->
             [t |-> "array",
              items |-> [i \in DOMAIN language.sentence_types.items |->
                           JsonString(language.sentence_types.items[i].name.s)]]]

C2_Witness ==
  /\ pc = "returned"
  /\ LoaderReturned
  /\ WellFormed(language)
  /\ Len(language.sentence_types.items) = 2
  /\ language.sentence_types.items[1] # language.sentence_types.items[2]
  /\ returned.valid = JsonTrue

\* C3 as stated: when the loader raised, the result has valid == false and
\* error and error_type are both non-empty strings.
C3_ErrorNonEmpty ==
  (pc = "returned" /\ LoaderRaised) =>
     /\ returned.valid = JsonFalse
     /\ returned.error.t = "string" /\ returned.error.s # ""
     /\ returned.error_type.t = "string" /\ returned.error_type.s # ""

\* C3 as amended: when the loader raised, the result has valid == false,
\* error_type is a non-empty string and error is a string that is empty
\* exactly when the failure carries no message or an empty one.
C3_ErrorIsMessage ==
  (pc = "returned" /\ LoaderRaised) =>
     /\ returned.valid = JsonFalse
     /\ returned.error_type.t = "string" /\ returned.error_type.s # ""
     /\ returned.error.t = "string"
     /\ (returned.error.s = "") <=> (exc.args \in {<<>>, <<"">>})

C3_Witness ==
  /\ pc = "returned"
  /\ LoaderRaised
  /\ exc.args = <<>>
  /\ returned.error = JsonString("")

\* C4: a returned record is exactly one of the two variants: valid true with
\* language, name and sentence_types and nothing else, or valid false with
\* error and error_type and nothing else; the same holds of the dict bound
\* to result before it is serialized.
C4_ExactlyOneVariant ==
  /\ pc = "returned" =>
       \/ DOMAIN returned = SuccessKeys /\ returned.valid = JsonTrue
       \/ DOMAIN returned = FailureKeys /\ returned.valid = JsonFalse
  /\ result # Unbound =>
       \/ DOMAIN result = SuccessKeys /\ result.valid = PyBool(TRUE)
       \/ DOMAIN result = FailureKeys /\ result.valid = PyBool(FALSE)

\* A Failure returned after language.code and language.name had been read.
C4_Witness ==
  /\ pc = "returned"
  /\ code_v # Unbound
  /\ name_v # Unbound
  /\ returned.valid = JsonFalse

\* C5: every invocation puts repo_path at index 0 of sys.path before the
\* loader is called and leaves the entries that were there behind it in
\* their order; nothing else changes the list, so its first entry is the
\* repo_path of the most recent invocation.
C5_PrependedBeforeLoad ==
  /\ [](pc # "idle" => Head(sys_path) = repo_path)
  /\ [][loadCalls' # loadCalls => Head(sys_path) = repo_path]_vars
  /\ [][passed' # passed => sys_path' = <<repo_path'>> \o sys_path]_vars
  /\ [][passed' = passed => sys_path' = sys_path]_vars

\* A second invocation, with another path, that ended in a Failure.
C5_Witness ==
  /\ Len(passed) = 2
  /\ passed[1] # passed[2]
  /\ pc = "returned"
  /\ returned.valid = JsonFalse
  /\ sys_path = <<passed[2], passed[1]>> \o InitialSysPath

\* C6: when the loader returned an object that lacks code, name or
\* sentence_types, or one of whose sentence types lacks a type name, the
\* invocation does not raise, no Success dict is ever built, and the result
\* is a Failure whose error_type is AttributeError.
C6_ReadFailureReported ==
  (LoaderReturned /\ LacksField(language)) =>
     /\ pc # "raised"
     /\ result # Unbound => result.valid = PyBool(FALSE)
     /\ pc = "returned" =>
          /\ returned.valid = JsonFalse
          /\ returned.error_type = JsonString("AttributeError")

\* The second sentence type lacks its name, after the first one was collected.
C6_Witness ==
  /\ pc = "returned"
  /\ LoaderReturned
  /\ WellFormed([language EXCEPT !.sentence_types = PyList(<<>>)])
  /\ language.sentence_types.k = "list"
  /\ Len(language.sentence_types.items) = 2
  /\ language.sentence_types.items[1].k = "class"
  /\ language.sentence_types.items[2].k = "instance"
  /\ Len(types_v) = 1

\* C7: sys.path only grows: it holds every entry it started with and one
\* entry for every invocation so far, failed ones and repeated paths
\* included, so after n invocations it is n entries longer.
C7_SearchListAccumulates ==
  /\ Len(sys_path) = Len(InitialSysPath) + Len(passed)
  /\ \A p \in RepoPaths \cup {InitialSysPath[i] : i \in DOMAIN InitialSysPath} :
       Count(sys_path, p) = Count(InitialSysPath, p) + Count(passed, p)

\* The same path passed twice, the second invocation ending in a Failure.
C7_Witness ==
  /\ Len(passed) = 2
  /\ passed[1] = passed[2]
  /\ pc = "returned"
  /\ returned.valid = JsonFalse
  /\ Count(sys_path, passed[1]) = 2

\* C9 as stated: error is the message text of the failure and error_type
\* its class name, and two failures of different classes are reported with
\* different error_type values.
C9_ClassesDistinguished ==
  /\ (pc = "returned" /\ returned.valid = JsonFalse) =>
        /\ returned.error = JsonString(IF exc.args = <<>> THEN "" ELSE exc.args[1])
        /\ returned.error_type = JsonString(exc.cls.name)
  /\ \A f, g \in failures : f.cls # g.cls => f.error_type # g.error_type

\* C9 as amended: error is the message text of the failure and error_type
\* the bare name of its class; failures whose classes have different names
\* are reported with different error_type values, failures whose classes
\* share a name with the same one.
C9_ClassNamePassedThrough ==
  /\ (pc = "returned" /\ returned.valid = JsonFalse) =>
        /\ returned.error = JsonString(IF exc.args = <<>> THEN "" ELSE exc.args[1])
        /\ returned.error_type = JsonString(exc.cls.name)
  /\ \A f, g \in failures :
        (f.cls.name # g.cls.name) <=> (f.error_type # g.error_type)

\* Failures of two classes with one name and of a class with another name.
C9_Witness ==
  /\ pc = "returned"
  /\ \E f, g, h \in failures :
        /\ f.cls # g.cls /\ f.cls.name = g.cls.name
        /\ h.cls.name # f.cls.name

\* C10 as stated: when the invocation ends, the loader's load operation has
\* been called exactly once, with repo_path.
C10_LoadedExactlyOnce == Done => loadCalls = <<repo_path>>

\* C10 as amended: the load operation is called at most once per invocation
\* and only with repo_path: once when importing the loader succeeded, not at
\* all when that import failed; a failed call is not repeated.
C10_LoadedAtMostOnce ==
  /\ Len(loadCalls) <= 1
  /\ \A i \in DOMAIN loadCalls : loadCalls[i] = repo_path
  /\ Done => (imported <=> loadCalls = <<repo_path>>)

\* A Failure returned after the one call of the loader raised.
C10_Witness ==
  /\ pc = "returned"
  /\ LoaderRaised
  /\ loadCalls = <<repo_path>>
  /\ returned.valid = JsonFalse

====
